---- MODULE Spec2Model ----
(***************************************************************************)
(* The per-tick simulation core of PoolTouhou: GameSystem::run and its     *)
(* helpers in src/systems/game_system.rs.                                  *)
(*                                                                         *)
(* Coordinates, hp and damage are f32 in the source and integers here; all *)
(* values the model uses are integers that f32 represents exactly.  Times  *)
(* of the death animation are kept in hundredths of a second.  The entity  *)
(* store is modelled by its observable contract: a join visits the         *)
(* entities of a storage in increasing id order, entities built during a   *)
(* run are visible to later joins of that run, and a deleted entity stays  *)
(* in its storages (flagged killed) until the store's maintain.            *)
(***************************************************************************)
EXTENDS Integers, Sequences, FiniteSets, TLC

VARIABLES
    tick_sign,        \* CoreStorage.tick_sign
    tick,             \* CoreStorage.tick
    core_player,      \* CoreStorage.player : Option<Entity>
    players,          \* Player component + Transform of the player entity
    player_bullets,   \* PlayerBullet storage, in join (entity id) order
    enemies,          \* Enemy storage, entity id -> enemy
    enemy_bullets,    \* EnemyBullet storage, in join (entity id) order
    animations,       \* entities built by boss_die_anime, in creation order
    script_manager,   \* names of the scripts the ScriptManager has cached
    step,             \* what run did in the current frame (observation only;
                      \* left is the length of the command queue at its end)
    last_shot,        \* tick of the last step that built a player bullet
    phase,            \* frame loop position: "dispatch" or "maintain"
    signals,          \* number of times the driver raised tick_sign
    probe             \* the last call of a pure function and what it returned

vars == <<tick_sign, tick, core_player, players, player_bullets, enemies,
          enemy_bullets, animations, script_manager, step, last_shot,
          phase, signals, probe>>

-----------------------------------------------------------------------------
(* Bounds of the model *)

MaxSignals == 4
MaxEnemyBullets == 2
MaxCoord == 3

-----------------------------------------------------------------------------
(* Program constants *)

PlayfieldMaxX == 1600
PlayfieldMaxY == 900
OutMinX == -100
OutMaxX == 1700
OutMaxY == 1000
OutMinY == -100
PlayerBulletStep == 30
PlayerBulletDamage == 10
ShootCooldown == 2
PlayerRadius == 5
AnimOffset == 50

None == "None"
PlayerEntity == "player"

Min(a, b) == IF a <= b THEN a ELSE b
Max(a, b) == IF a >= b THEN a ELSE b

MinOf(S) == CHOOSE m \in S : \A o \in S : m <= o

Vec(x, y) == [x |-> x, y |-> y]

-----------------------------------------------------------------------------
(* CollideType *)

Circle(r_2) == [kind |-> "Circle", r_2 |-> r_2]

\* mutant: the boundary of the circle is left out
is_collide_with_point_strict(self, me, other) ==
    LET x_distance == me.x - other.x
        y_distance == me.y - other.y
    IN  x_distance * x_distance + y_distance * y_distance < self.r_2

is_collide_with_point(self, me, other) ==
    LET x_distance == me.x - other.x
        y_distance == me.y - other.y
    IN  x_distance * x_distance + y_distance * y_distance <= self.r_2

\* mutant: a circle without extent is tested with its own shape
is_collide_with_own_shape(self, me, other_collide, other) ==
    IF self.r_2 <= 0
    THEN is_collide_with_point(self, me, other)
    ELSE TRUE

\* mutant: a circle with extent is tested by the distance of the centers
is_collide_with_by_distance(self, me, other_collide, other) ==
    IF self.r_2 <= 0
    THEN is_collide_with_point(other_collide, me, other)
    ELSE is_collide_with_point(self, me, other)

is_collide_with(self, me, other_collide, other) ==
    IF self.r_2 <= 0
    THEN is_collide_with_point(other_collide, me, other)
    ELSE TRUE

CollideTypeFrom(value, args) ==
    IF value = 10 THEN Circle(args[1] * args[1]) ELSE None

is_out_of_game(tran) ==
    tran.x < OutMinX \/ tran.x > OutMaxX \/ tran.y > OutMaxY \/ tran.y < OutMinY

-----------------------------------------------------------------------------
(* Transform::move_up: translation along the transform's own up axis.  The *)
(* model keeps rotations about z that are multiples of 90 degrees.          *)

UpAxis(angle) ==
    CASE angle = 0   -> Vec(0, 1)
      [] angle = 90  -> Vec(-1, 0)
      [] angle = 180 -> Vec(0, -1)
      [] angle = 270 -> Vec(1, 0)

move_up(tran, v) ==
    [tran EXCEPT !.x = @ + UpAxis(tran.angle).x * v,
                 !.y = @ + UpAxis(tran.angle).y * v]

-----------------------------------------------------------------------------
(* boss_die_anime: the six animation entities of one death *)

Anime(x, y, last, spread, delay, circle) ==
    [x |-> x, y |-> y, last_seconds |-> last, spread_per_second |-> spread,
     delay_second |-> delay, circle |-> circle]

\* mutant: the x of the fifth entity is not set back to the left
DieAnimeEntities_corner_twice(pos) ==
    << Anime(pos.x,              pos.y,              500, 300, 0,   TRUE),
       Anime(pos.x - AnimOffset, pos.y + AnimOffset, 475, 375, 25,  FALSE),
       Anime(pos.x + AnimOffset, pos.y + AnimOffset, 475, 375, 25,  FALSE),
       Anime(pos.x + AnimOffset, pos.y - AnimOffset, 475, 375, 25,  FALSE),
       Anime(pos.x + AnimOffset, pos.y - AnimOffset, 475, 375, 25,  FALSE),
       Anime(pos.x,              pos.y,              400, 500, 100, FALSE) >>

DieAnimeEntities(pos) ==
    << Anime(pos.x,              pos.y,              500, 300, 0,   TRUE),
       Anime(pos.x - AnimOffset, pos.y + AnimOffset, 475, 375, 25,  FALSE),
       Anime(pos.x + AnimOffset, pos.y + AnimOffset, 475, 375, 25,  FALSE),
       Anime(pos.x + AnimOffset, pos.y - AnimOffset, 475, 375, 25,  FALSE),
       Anime(pos.x - AnimOffset, pos.y - AnimOffset, 475, 375, 25,  FALSE),
       Anime(pos.x,              pos.y,              400, 500, 100, FALSE) >>

boss_die_anime(anims, pos) == anims \o DieAnimeEntities(pos)

-----------------------------------------------------------------------------
(* process_player *)

\* mutant: the upper bound is not applied
clamp_below_only(v, lo, hi) == Max(v, lo)

\* f32::max(lo) then f32::min(hi)
clamp(v, lo, hi) == Min(Max(v, lo), hi)

\* mutant: the cooldown is never decremented
shoot_cooldown_stuck(cooldown, fire) ==
    IF cooldown = 0
    THEN IF fire THEN ShootCooldown ELSE cooldown
    ELSE cooldown

\* shoot_cooldown after the step, from its value before and the fire key
shoot_cooldown_after(cooldown, fire) ==
    IF cooldown = 0
    THEN IF fire THEN ShootCooldown ELSE cooldown
    ELSE (cooldown - 1) % 256

\* whether the step builds a PlayerBullet
player_shoots(cooldown, fire) == cooldown = 0 /\ fire

\* Entities::build_entity: the allocator hands out a free id the core does
\* not control, so the new entity takes any place in the join order
InsertAt(storage, slot, entity) ==
    SubSeq(storage, 1, slot - 1) \o <<entity>>
        \o SubSeq(storage, slot, Len(storage))

\* the parallel any() over the enemy bullets
player_die(bullets, collide, pos) ==
    \E b \in DOMAIN bullets :
        is_collide_with(bullets[b].collide, bullets[b], collide, pos)

\* mutant: the global player reference is not cleared
kill_player_keeps_reference(w, entity, pos) ==
    [w EXCEPT !.animations = boss_die_anime(@, pos),
              !.players[entity].killed = TRUE]

\* the body of `if die`
kill_player(w, entity, pos) ==
    [w EXCEPT !.animations = boss_die_anime(@, pos),
              !.players[entity].killed = TRUE,
              !.core_player = None]

\* InputData::get_move(speed): the held direction scaled by the speed
get_move(dir, speed) == Vec(dir.x * speed, dir.y * speed)

process_player(w, in) ==
    IF w.core_player = None
    THEN w
    ELSE
      LET entity == w.core_player
          player == w.players[entity]
          is_walk == "LShift" \in in.pressing
          fire == "Z" \in in.pressing
          mov == get_move(in.dir, IF is_walk THEN player.walk_speed
                                             ELSE player.move_speed)
          x == clamp(mov.x + player.x, 0, PlayfieldMaxX)
          y == clamp(mov.y + player.y, 0, PlayfieldMaxY)
          pos == Vec(x, y)
          shoots == player_shoots(player.shoot_cooldown, fire)
          bullet == [x |-> x, y |-> y, angle |-> player.angle,
                     damage |-> PlayerBulletDamage, killed |-> FALSE]
          moved == [w EXCEPT
                      !.players[entity].x = x,
                      !.players[entity].y = y,
                      !.players[entity].circle = is_walk,
                      !.players[entity].shoot_cooldown =
                          shoot_cooldown_after(@, fire),
                      !.player_bullets =
                          IF shoots THEN InsertAt(@, in.slot, bullet) ELSE @,
                      !.fired = IF shoots THEN in.slot ELSE 0]
          collide == Circle(player.radius * player.radius)
      IN  IF player_die(w.enemy_bullets, collide, pos)
          THEN kill_player(moved, entity, pos)
          ELSE moved

-----------------------------------------------------------------------------
(* the player bullets pass of run *)

\* mutant: the inner loop does not skip an enemy without hp
enemy_is_hit_any_hp(enemy, bullet_pos) ==
    is_collide_with_point(enemy.collide, enemy, bullet_pos)

\* the inner loop's test: a live enemy whose shape holds the bullet
enemy_is_hit(enemy, bullet_pos) ==
    /\ ~(enemy.hp <= 0)
    /\ is_collide_with_point(enemy.collide, enemy, bullet_pos)

\* mutant: the dead enemy is animated but its entity is not deleted
enemy_dies_undeleted(w, e) ==
    [w EXCEPT !.animations = boss_die_anime(@, w.enemies[e])]

\* the body of `if enemy.hp <= 0.0` after the subtraction
enemy_dies(w, e) ==
    [w EXCEPT !.enemies[e].killed = TRUE,
              !.animations = boss_die_anime(@, w.enemies[e])]

\* mutant: the hit does not end the bullet's turn, and the bullet moves
hit_enemy_then_moves(w, b, e) ==
    LET hurt == [w EXCEPT !.enemies[e].hp = @ - w.player_bullets[b].damage]
        dead == IF hurt.enemies[e].hp <= 0 THEN enemy_dies(hurt, e) ELSE hurt
    IN  [dead EXCEPT !.player_bullets[b] =
                         [move_up(@, PlayerBulletStep) EXCEPT !.killed = TRUE],
                     !.hits = Append(@, <<b, e>>)]

hit_enemy(w, b, e) ==
    LET hurt == [w EXCEPT !.enemies[e].hp = @ - w.player_bullets[b].damage]
        dead == IF hurt.enemies[e].hp <= 0 THEN enemy_dies(hurt, e) ELSE hurt
    IN  [dead EXCEPT !.player_bullets[b].killed = TRUE,
                     !.hits = Append(@, <<b, e>>)]

\* mutant: the moved bullet is not tested against the bounds
advance_player_bullet_unchecked(w, b) ==
    [w EXCEPT !.player_bullets[b] = move_up(@, PlayerBulletStep)]

advance_player_bullet(w, b) ==
    LET pos == move_up(w.player_bullets[b], PlayerBulletStep)
    IN  [w EXCEPT !.player_bullets[b] =
                     IF is_out_of_game(pos)
                     THEN [pos EXCEPT !.killed = TRUE]
                     ELSE pos]

player_bullet_step(w, b) ==
    LET hit == {e \in DOMAIN w.enemies :
                   enemy_is_hit(w.enemies[e], w.player_bullets[b])}
    IN  IF hit # {}
        THEN hit_enemy(w, b, MinOf(hit))
        ELSE advance_player_bullet(w, b)

RECURSIVE player_bullets_pass(_, _)
player_bullets_pass(w, b) ==
    IF b > Len(w.player_bullets)
    THEN w
    ELSE player_bullets_pass(player_bullet_step(w, b), b + 1)

-----------------------------------------------------------------------------
(* ScriptGameCommand and the scripts' outputs.  A script is external: what *)
(* its tick function pushes on submit_command is an input of the step.     *)

MoveUp(v) == [cmd |-> "MoveUp", v |-> v]

SummonBullet(name, x, y, angle, collide, script) ==
    [cmd |-> "SummonBullet", name |-> name, x |-> x, y |-> y,
     angle |-> angle, collide |-> collide, script |-> script]

\* a point bullet below the top edge, and a bullet with a positive radius
SummonPoint == SummonBullet("basic", 1600, 990, 0, Circle(0), "s1")
SummonRound == SummonBullet("basic", 800, 450, 90, Circle(16), "s2")

\* what the tick function of an enemy's script may push
EnemyTick(script) ==
    CASE script = "idle" -> { <<MoveUp(20)>> }
      [] script = "boss" -> { <<>>, <<SummonPoint>>,
                              <<MoveUp(20), SummonRound>> }

\* what the tick function of an enemy bullet's script may push
BulletTick(script) ==
    CASE script = "s1" -> { <<MoveUp(90)>>, <<SummonPoint, MoveUp(-90)>> }
      [] script = "s2" -> { <<>> }

\* ScriptContext::execute_function("tick", game_data): pushes its commands.
\* The record of the call keeps the commands and the length of the queue
\* the call found.
execute_function(w, who, out) ==
    [w EXCEPT !.ticked = Append(@, who),
              !.emitted = Append(@, [who |-> who, out |-> out,
                                     queued |-> Len(w.submit_command)]),
              !.submit_command = @ \o out]

-----------------------------------------------------------------------------
(* the enemy bullets pass of run *)

\* one arm of the match in the enemy bullets pass
bullet_command(tran, x) ==
    IF x.cmd = "MoveUp" THEN move_up(tran, x.v) ELSE tran

\* mutant: one command is popped instead of all
drain_bullet_commands_once(w, b) ==
    IF w.submit_command = <<>>
    THEN w
    ELSE LET n == Len(w.submit_command)
         IN  [w EXCEPT !.enemy_bullets[b] =
                           bullet_command(@, w.submit_command[n]),
                       !.submit_command = SubSeq(@, 1, n - 1)]

\* while let Some(x) = submit_command.pop(), on the bullet's transform
RECURSIVE drain_bullet_commands(_, _)
drain_bullet_commands(w, b) ==
    IF w.submit_command = <<>>
    THEN w
    ELSE LET n == Len(w.submit_command)
         IN  drain_bullet_commands(
                 [w EXCEPT !.enemy_bullets[b] =
                               bullet_command(@, w.submit_command[n]),
                           !.submit_command = SubSeq(@, 1, n - 1)],
                 b)

\* mutant: a bullet out of bounds is deleted and still ticked
enemy_bullet_step_ticks_expired(w, b, out) ==
    drain_bullet_commands(
        execute_function(
            [w EXCEPT !.enemy_bullets[b].killed =
                          @ \/ is_out_of_game(w.enemy_bullets[b])],
            [kind |-> "bullet", id |-> b], out), b)

\* mutant: the bounds are tested again after the scripted movement
enemy_bullet_step_checks_after(w, b, out) ==
    IF is_out_of_game(w.enemy_bullets[b])
    THEN [w EXCEPT !.enemy_bullets[b].killed = TRUE]
    ELSE LET moved == drain_bullet_commands(
                          execute_function(w, [kind |-> "bullet", id |-> b],
                                           out), b)
         IN  [moved EXCEPT !.enemy_bullets[b].killed =
                               is_out_of_game(moved.enemy_bullets[b])]

enemy_bullet_step(w, b, out) ==
    IF is_out_of_game(w.enemy_bullets[b])
    THEN [w EXCEPT !.enemy_bullets[b].killed = TRUE]
    ELSE drain_bullet_commands(
             execute_function(w, [kind |-> "bullet", id |-> b], out), b)

RECURSIVE enemy_bullets_pass(_, _, _)
enemy_bullets_pass(w, b, outs) ==
    IF b > Len(w.enemy_bullets)
    THEN w
    ELSE enemy_bullets_pass(enemy_bullet_step(w, b, outs[b]), b + 1, outs)

-----------------------------------------------------------------------------
(* the enemies pass of run *)

\* ScriptManager::get_script: whether the cache holds the name
get_script(manager, name) == name \in manager

\* ScriptManager::load_script: a successful load caches the script
load_script(manager, name) == manager \cup {name}

\* the SummonBullet arm: get_script, else load_script, then build the
\* entity.  Nothing the core does depends on the order among enemy bullets,
\* and the new one is kept last.
\* mutant: the script is loaded without asking the cache first
summon_bullet_always_loads(w, x) ==
    LET bullet == [x |-> x.x, y |-> x.y, angle |-> x.angle,
                   collide |-> x.collide, script |-> x.script,
                   killed |-> FALSE]
    IN  [w EXCEPT !.script_manager = load_script(@, x.script),
                  !.loads = Append(@, x.script),
                  !.enemy_bullets = Append(@, bullet)]

summon_bullet(w, x) ==
    LET cached == get_script(w.script_manager, x.script)
        bullet == [x |-> x.x, y |-> x.y, angle |-> x.angle,
                   collide |-> x.collide, script |-> x.script,
                   killed |-> FALSE]
    IN  [w EXCEPT !.script_manager =
                      IF cached THEN @ ELSE load_script(@, x.script),
                  !.loads = IF cached THEN @ ELSE Append(@, x.script),
                  !.enemy_bullets = Append(@, bullet)]

enemy_command(w, x) ==
    IF x.cmd = "SummonBullet" THEN summon_bullet(w, x) ELSE w

RECURSIVE drain_enemy_commands(_)
drain_enemy_commands(w) ==
    IF w.submit_command = <<>>
    THEN w
    ELSE LET n == Len(w.submit_command)
             popped == [w EXCEPT !.submit_command = SubSeq(@, 1, n - 1)]
         IN  drain_enemy_commands(enemy_command(popped, w.submit_command[n]))

\* mutant: a MoveUp of the enemy's script moves the enemy
enemy_step_moves(w, e, out) ==
    LET done == drain_enemy_commands(
                    execute_function(w, [kind |-> "enemy", id |-> e], out))
    IN  IF out # <<>> /\ out[1].cmd = "MoveUp"
        THEN [done EXCEPT !.enemies[e] = move_up(@, out[1].v)]
        ELSE done

enemy_step(w, e, out) ==
    drain_enemy_commands(
        execute_function(w, [kind |-> "enemy", id |-> e], out))

RECURSIVE enemies_pass(_, _, _)
enemies_pass(w, ids, outs) ==
    IF ids = {}
    THEN w
    ELSE LET e == MinOf(ids)
         IN  enemies_pass(enemy_step(w, e, outs[e]), ids \ {e}, outs)

-----------------------------------------------------------------------------
(* GameSystem::run *)

\* the storages and resources run works on, with an empty command queue
\* (ScriptGameData::submit_command) and an empty record of what it did
World ==
    [core_player |-> core_player, players |-> players,
     player_bullets |-> player_bullets, enemies |-> enemies,
     enemy_bullets |-> enemy_bullets, animations |-> animations,
     script_manager |-> script_manager, submit_command |-> <<>>,
     ticked |-> <<>>, emitted |-> <<>>, hits |-> <<>>, loads |-> <<>>,
     fired |-> 0]

\* mutant: the step runs whatever the flag says
tick_gate_open(sign) == TRUE

\* if data.core.tick_sign
tick_gate(sign) == sign

\* mutant: the flag is not consumed
consume_tick_keeps_sign(core) ==
    [tick_sign |-> core.tick_sign, tick |-> core.tick + 1]

\* data.core.tick_sign = false; data.core.tick += 1
consume_tick(core) == [tick_sign |-> FALSE, tick |-> core.tick + 1]

\* mutant: the player is processed after the other passes
simulate_player_last(w, in) ==
    LET pb == player_bullets_pass(w, 1)
        eb == enemy_bullets_pass(pb, 1, in.bullet_out)
    IN  process_player(enemies_pass(eb, DOMAIN eb.enemies, in.enemy_out), in)

\* the passes of one simulation step, in the order of the source
simulate(w, in) ==
    LET p  == process_player(w, in)
        pb == player_bullets_pass(p, 1)
        eb == enemy_bullets_pass(pb, 1, in.bullet_out)
    IN  enemies_pass(eb, DOMAIN eb.enemies, in.enemy_out)

-----------------------------------------------------------------------------
(* Inputs of one step: the held keys and direction (CoreStorage.cur_input), *)
(* the scripts' outputs and the ids the allocator hands out.                *)

Directions == { Vec(0, 0), Vec(0, 1), Vec(1, 1), Vec(-1, -1) }
Keys == SUBSET {"LShift", "Z"}

RECURSIVE SummonCount(_)
SummonCount(q) ==
    IF q = <<>> THEN 0
    ELSE (IF Head(q).cmd = "SummonBullet" THEN 1 ELSE 0) + SummonCount(Tail(q))

RECURSIVE SummonTotal(_, _)
SummonTotal(outs, ids) ==
    IF ids = {} THEN 0
    ELSE SummonCount(outs[MinOf(ids)]) + SummonTotal(outs, ids \ {MinOf(ids)})

\* the outputs the scripts of a storage's entities may give in one step
\* (may[e] is what the tick function of entity e may push)
TickOutputs(may) ==
    { outs \in [DOMAIN may -> UNION {may[e] : e \in DOMAIN may}] :
          \A e \in DOMAIN may : outs[e] \in may[e] }

BulletOutputs ==
    TickOutputs([b \in DOMAIN enemy_bullets |->
                     BulletTick(enemy_bullets[b].script)])

\* the places a new player bullet may take; none is needed without a shot
SlotChoices(pressing) ==
    IF /\ core_player # None
       /\ player_shoots(players[core_player].shoot_cooldown, "Z" \in pressing)
    THEN 1 .. Len(player_bullets) + 1
    ELSE {0}

\* the enemies' outputs whose summons the enemy bullet storage can take
EnemyOutputs ==
    { outs \in TickOutputs([e \in DOMAIN enemies |->
                                 EnemyTick(enemies[e].script)]) :
          Len(enemy_bullets) + SummonTotal(outs, DOMAIN enemies)
              <= MaxEnemyBullets }

-----------------------------------------------------------------------------
(* Actions *)

NoProbe == [op |-> "none"]

NoStep == [ran |-> FALSE, fire |-> FALSE, fired |-> 0,
           ticked |-> <<>>, emitted |-> <<>>, hits |-> <<>>, loads |-> <<>>,
           left |-> 0]

NewPlayer(x, y, speed) ==
    [x |-> x, y |-> y, angle |-> 0, move_speed |-> speed,
     walk_speed |-> (speed * 6) \div 10, radius |-> PlayerRadius,
     shoot_cooldown |-> 0, circle |-> FALSE, killed |-> FALSE]

NewEnemy(x, y, hp, r_2, script) ==
    [x |-> x, y |-> y, angle |-> 0, hp |-> hp, collide |-> Circle(r_2),
     script |-> script, killed |-> FALSE]

\* a level with two overlapping enemies and a fast player
Duel ==
    /\ \E start \in { Vec(10, 10), Vec(1600, 880) } :
         players = (PlayerEntity :> NewPlayer(start.x, start.y, 10000))
    /\ enemies = (1 :> NewEnemy(10, 500, 5, 160000, "idle"))
              @@ (2 :> NewEnemy(10, 510, 15, 160000, "idle"))

\* a level with one enemy that summons bullets and a player that stays put
Barrage ==
    /\ players = (PlayerEntity :> NewPlayer(1600, 900, 0))
    /\ enemies = (1 :> NewEnemy(10, 500, 5, 160000, "boss"))

Init ==
    /\ tick_sign = FALSE
    /\ tick = 0
    /\ core_player = PlayerEntity
    /\ (Duel \/ Barrage)
    /\ player_bullets = <<>>
    /\ enemy_bullets = <<>>
    /\ animations = <<>>
    /\ script_manager = {}
    /\ step = NoStep
    /\ last_shot = 0
    /\ phase = "dispatch"
    /\ signals = 0
    /\ probe = NoProbe

\* the external driver raises the one-shot flag
Signal ==
    /\ phase = "dispatch"
    /\ signals < MaxSignals
    /\ tick_sign' = TRUE
    /\ signals' = signals + 1
    /\ UNCHANGED <<tick, core_player, players, player_bullets, enemies,
                   enemy_bullets, animations, script_manager, step,
                   last_shot, phase, probe>>

\* one call of GameSystem::run by the dispatcher
Run ==
    /\ phase = "dispatch"
    /\ phase' = "maintain"
    /\ UNCHANGED <<signals, probe>>
    /\ IF tick_gate(tick_sign)
       THEN /\ tick < MaxSignals
            /\ \E dir \in (IF core_player = None THEN {Vec(0, 0)} ELSE Directions),
                  pressing \in (IF core_player = None THEN {{}} ELSE Keys),
                  bullet_out \in BulletOutputs,
                  enemy_out \in EnemyOutputs :
               \E slot \in SlotChoices(pressing) :
                 LET in == [dir |-> dir, pressing |-> pressing,
                            slot |-> slot, bullet_out |-> bullet_out,
                            enemy_out |-> enemy_out]
                     w == simulate(World, in)
                     core == consume_tick([tick_sign |-> tick_sign,
                                           tick |-> tick])
                 IN  /\ tick_sign' = core.tick_sign
                     /\ tick' = core.tick
                     /\ core_player' = w.core_player
                     /\ players' = w.players
                     /\ player_bullets' = w.player_bullets
                     /\ enemies' = w.enemies
                     /\ enemy_bullets' = w.enemy_bullets
                     /\ animations' = w.animations
                     /\ script_manager' = w.script_manager
                     /\ step' = [ran |-> TRUE, fire |-> "Z" \in pressing,
                                 fired |-> w.fired, ticked |-> w.ticked,
                                 emitted |-> w.emitted,
                                 hits |-> w.hits, loads |-> w.loads,
                                 left |-> Len(w.submit_command)]
                     /\ last_shot' = IF w.fired # 0 THEN core.tick
                                                    ELSE last_shot
       ELSE UNCHANGED <<tick_sign, tick, core_player, players,
                        player_bullets, enemies, enemy_bullets,
                        animations, script_manager, step, last_shot>>

Alive(storage) ==
    [e \in {i \in DOMAIN storage : ~storage[i].killed} |-> storage[e]]

IsAlive(entity) == ~entity.killed

\* World::maintain after the dispatch: deleted entities leave the storages,
\* and the frame ends
Maintain ==
    /\ phase = "maintain"
    /\ phase' = "dispatch"
    /\ players' = Alive(players)
    /\ player_bullets' = SelectSeq(player_bullets, IsAlive)
    /\ enemies' = Alive(enemies)
    /\ enemy_bullets' = SelectSeq(enemy_bullets, IsAlive)
    /\ step' = NoStep
    /\ UNCHANGED <<tick_sign, tick, core_player, animations, script_manager,
                   last_shot, signals, probe>>

Next == Signal \/ Run \/ Maintain

Spec == Init /\ [][Next]_vars

-----------------------------------------------------------------------------
(* Calls of the pure functions of the module on inputs drawn from bounded  *)
(* sets, in a world that does not step.  Each behaviour makes one call.    *)

\* Vector3<f32>
Vec3(x, y, z) == [x |-> x, y |-> y, z |-> z]

Coords == { -MaxCoord, 0, MaxCoord }
Depths == { 0, MaxCoord + 4 }
Points == { Vec3(x, y, z) : x \in Coords, y \in Coords, z \in Depths }

\* radius arguments of the shape tag, and r_2 values stored directly
Radii == { -1, 0, MaxCoord, MaxCoord + 1 }
Stored == { -1, 0, 4, MaxCoord * MaxCoord }
Tags == { 10, 11 }

World0 ==
    UNCHANGED <<tick_sign, tick, core_player, players, player_bullets,
                enemies, enemy_bullets, animations, script_manager, step,
                last_shot, phase, signals>>

\* CollideType::try_from((value, args))
CallTryFrom ==
    /\ probe = NoProbe
    /\ \E value \in Tags, r \in Radii :
         probe' = [op |-> "try_from", value |-> value, args |-> <<r>>,
                   result |-> CollideTypeFrom(value, <<r>>)]
    /\ World0

\* is_collide_with_point on a shape built from tag 10, together with the
\* call with center and point swapped and the call with both z set to 0
CallPoint ==
    /\ probe = NoProbe
    /\ \E r \in Radii, me \in Points, other \in Points :
         LET self == CollideTypeFrom(10, <<r>>)
         IN  probe' = [op |-> "point", r |-> r, me |-> me, other |-> other,
                       result |-> is_collide_with_point(self, me, other),
                       swapped |-> is_collide_with_point(self, other, me),
                       flat |-> is_collide_with_point(
                                    self, [me EXCEPT !.z = 0],
                                    [other EXCEPT !.z = 0])]
    /\ World0

\* is_collide_with
CallCollide ==
    /\ probe = NoProbe
    /\ \E a \in Stored, b \in Stored, me \in Points, other \in Points :
         probe' = [op |-> "collide", self |-> Circle(a), me |-> me,
                   other_collide |-> Circle(b), other |-> other,
                   result |-> is_collide_with(Circle(a), me, Circle(b), other)]
    /\ World0

\* boss_die_anime, with and without animation entities built before
CallDieAnime ==
    /\ probe = NoProbe
    /\ \E pos \in Points, before \in { <<>>, <<Anime(0, 0, 1, 1, 0, FALSE)>> } :
         probe' = [op |-> "boss_die_anime", pos |-> pos, before |-> before,
                   result |-> boss_die_anime(before, pos)]
    /\ World0

CallInit == Init /\ Barrage

CallNext == CallTryFrom \/ CallPoint \/ CallCollide \/ CallDieAnime

CallSpec == CallInit /\ [][CallNext]_vars

-----------------------------------------------------------------------------
(* Properties *)

\* a call of run that finds the flag raised, and one that does not
RunStep == phase = "dispatch" /\ phase' = "maintain" /\ tick_sign
IdleRun == phase = "dispatch" /\ phase' = "maintain" /\ ~tick_sign

\* the state a simulation step leaves, before the store's maintain
AfterStep == phase = "maintain" /\ step.ran

\* the animation entities a call of run built
NewAnimations == SubSeq(animations', Len(animations) + 1, Len(animations'))

\* how often the six entities of a death at pos occur in a sequence
DeathCount(anims, pos) ==
    Cardinality({ i \in 1 .. Len(anims) - 5 :
                    SubSeq(anims, i, i + 5) = DieAnimeEntities(pos) })

PlayerDied == core_player # None /\ core_player' = None

\* C1: each raised signal triggers at most one simulation step: a run that
\* finds the flag raised leaves it lowered and adds exactly 1 to the tick
\* counter, the counter changes in no other way, and the number of executed
\* steps never exceeds the number of signals raised.
C1_OneStepPerSignal ==
    /\ [](tick <= signals)
    /\ [][RunStep => (~tick_sign' /\ tick' = tick + 1)]_vars
    /\ [][tick' # tick => RunStep]_vars

\* two signals were raised before a run, and one step was executed
C1_Witness == AfterStep /\ tick = 1 /\ signals = 2 /\ ~tick_sign

\* C2: a call of run with the flag lowered changes nothing: tick counter,
\* player reference, player, enemies, bullets, transforms and animation
\* entities are unchanged and no script is invoked.
C2_IdleRunChangesNothing ==
    [][IdleRun =>
         /\ UNCHANGED <<tick_sign, tick, core_player, players, player_bullets,
                        enemies, enemy_bullets, animations, script_manager,
                        last_shot>>
         /\ step'.ticked = <<>> /\ ~step'.ran]_vars

\* a render-only frame of a world with a player, enemies and bullets
C2_Witness ==
    /\ phase = "maintain" /\ ~step.ran /\ tick >= 1
    /\ core_player # None /\ player_bullets # <<>> /\ enemy_bullets # <<>>

\* C3: an enemy whose hp a player bullet brings from > 0 to <= 0 has its
\* deletion requested in that step and gets the six animation entities of
\* one death at its position exactly once, also when several player bullets
\* overlap it in that step; an enemy left with hp > 0 is not deleted and gets
\* no animation entity; hp changes only by a hit.
C3_EnemyDeathOnce ==
    [][RunStep =>
         LET died == { e \in DOMAIN enemies :
                         enemies[e].hp > 0 /\ enemies'[e].hp <= 0 }
         IN  /\ \A e \in DOMAIN enemies :
                  /\ enemies'[e].hp # enemies[e].hp =>
                         \E i \in DOMAIN step'.hits : step'.hits[i][2] = e
                  /\ e \in died =>
                         /\ enemies'[e].killed
                         /\ DeathCount(NewAnimations, enemies[e]) = 1
                  /\ e \notin died =>
                         /\ ~enemies'[e].killed
                         /\ DeathCount(NewAnimations, enemies[e]) = 0
             /\ Len(NewAnimations) =
                    6 * (Cardinality(died) + IF PlayerDied THEN 1 ELSE 0)]_vars

\* enemy 1 died in a step in which two player bullets overlapped it
C3_Witness ==
    /\ AfterStep
    /\ 1 \in DOMAIN enemies /\ enemies[1].killed /\ enemies[1].hp <= 0
    /\ Cardinality({ b \in DOMAIN player_bullets :
                       is_collide_with_point(enemies[1].collide, enemies[1],
                                             player_bullets[b]) }) >= 2
    /\ Len(step.hits) = 2
    /\ Len(animations) = 6

\* C4: at the start of every simulation step every enemy in the store has
\* hp > 0; an enemy without hp has its deletion requested.
C4_EnemiesHaveHp ==
    /\ phase = "dispatch" => \A e \in DOMAIN enemies : enemies[e].hp > 0
    /\ \A e \in DOMAIN enemies : enemies[e].hp <= 0 => enemies[e].killed

\* enemy 1 lost its hp and the store removed it before the next step
C4_Witness ==
    /\ phase = "dispatch" /\ tick_sign
    /\ 1 \notin DOMAIN enemies /\ 2 \in DOMAIN enemies

\* the test of the death check for one enemy bullet
HitsPlayer(bullet, player) ==
    is_collide_with(bullet.collide, bullet,
                    Circle(player.radius * player.radius), player)

\* C5: in a step where the player exists, the player is killed iff some
\* enemy bullet's collision test against the player's circle is true; a kill
\* builds the six animation entities once at the player's position, requests
\* the deletion of the player entity and clears the player reference, which
\* then stays none; without a hit the reference is unchanged.
C5_PlayerDeath ==
    /\ [][(RunStep /\ core_player # None) =>
            LET player == players'[core_player]
                hit == \E b \in DOMAIN enemy_bullets :
                           HitsPlayer(enemy_bullets[b], player)
            IN  /\ hit <=> core_player' = None
                /\ hit => /\ player.killed
                          /\ DeathCount(NewAnimations, player) = 1
                          /\ SubSeq(NewAnimations, 1, 6) =
                                 DieAnimeEntities(player)
                /\ ~hit => /\ core_player' = core_player
                           /\ ~player.killed
                           /\ DeathCount(NewAnimations, player) = 0]_vars
    /\ [][core_player = None => core_player' = None]_vars

\* the player stood on a point bullet and was killed
C5_Witness ==
    /\ AfterStep /\ core_player = None
    /\ PlayerEntity \in DOMAIN players /\ players[PlayerEntity].killed
    /\ \A b \in DOMAIN enemy_bullets : enemy_bullets[b].collide.r_2 = 0

\* C6: the player's position stays within [0, 1600] x [0, 900] after every
\* step, whatever movement vector the input gives.
C6_PlayerInPlayfield ==
    \A p \in DOMAIN players :
        /\ 0 <= players[p].x /\ players[p].x <= 1600
        /\ 0 <= players[p].y /\ players[p].y <= 900

\* a movement of (10000, 10000) in the first step ended at (1600, 900)
C6_Witness ==
    /\ AfterStep /\ tick = 1 /\ PlayerEntity \in DOMAIN players
    /\ players[PlayerEntity].move_speed = 10000
    /\ players[PlayerEntity].x = 1600 /\ players[PlayerEntity].y = 900

PlayerBulletBuilt == Len(player_bullets') = Len(player_bullets) + 1

\* C7: shoot_cooldown stays in {0, 1, 2}; a step builds a player bullet
\* exactly when it starts with shoot_cooldown = 0 and the fire key held, and
\* then sets it to 2; a step starting with shoot_cooldown > 0 builds none
\* and decrements it by 1; a step starting at 0 without the fire key leaves
\* it at 0; two shots are never less than 3 steps apart, and the third step
\* after a shot shoots again when the fire key is held.
C7_ShootCooldown ==
    /\ [](\A p \in DOMAIN players :
            /\ players[p].shoot_cooldown \in {0, 1, 2}
            /\ players[p].shoot_cooldown =
                   IF last_shot = 0 \/ tick - last_shot >= 2
                   THEN 0 ELSE 2 - (tick - last_shot))
    /\ [][(RunStep /\ core_player # None) =>
            LET before == players[core_player].shoot_cooldown
                after == players'[core_player].shoot_cooldown
            IN  /\ PlayerBulletBuilt <=> (before = 0 /\ step'.fire)
                /\ ~PlayerBulletBuilt =>
                       Len(player_bullets') = Len(player_bullets)
                /\ PlayerBulletBuilt => after = 2
                /\ before > 0 => after = before - 1
                /\ (before = 0 /\ ~step'.fire) => after = 0
                /\ (PlayerBulletBuilt /\ last_shot # 0) =>
                       tick' - last_shot >= 3
                /\ (step'.fire /\ last_shot # 0 /\ tick' - last_shot = 3) =>
                       PlayerBulletBuilt]_vars

\* the second shot, in the third step after the first
C7_Witness ==
    /\ AfterStep /\ step.fired # 0 /\ last_shot = 4 /\ tick = 4
    /\ Len(player_bullets) = 2
    /\ PlayerEntity \in DOMAIN players
    /\ players[PlayerEntity].shoot_cooldown = 2

\* the bounds of is_out_of_game, as the specification states them
Outside(pos) ==
    pos.x < -100 \/ pos.x > 1700 \/ pos.y > 1000 \/ pos.y < -100

\* the player bullet at place b matched no enemy in the step
Unmatched(b) == \A i \in DOMAIN step.hits : step.hits[i][1] # b

\* C8 as claimed: a player bullet that matched no enemy and whose position
\* after its move has y >= 1000, or lies outside the bounds, has its
\* deletion requested in that step.
C8_Original ==
    AfterStep =>
        \A b \in DOMAIN player_bullets :
            (Unmatched(b) /\ (player_bullets[b].y >= 1000
                                \/ Outside(player_bullets[b])))
                => player_bullets[b].killed

\* C8 amended: a player bullet that matched no enemy has its deletion
\* requested in that step exactly when its position after the move lies
\* outside the bounds x < -100, x > 1700, y > 1000, y < -100; at y = 1000
\* it is inside and stays.
C8_PlayerBulletLeaves ==
    AfterStep =>
        \A b \in DOMAIN player_bullets :
            Unmatched(b) =>
                (player_bullets[b].killed <=> Outside(player_bullets[b]))

\* a player bullet moved above y = 1000 and was deleted
C8_Witness ==
    /\ AfterStep
    /\ \E b \in DOMAIN player_bullets :
         /\ Unmatched(b) /\ player_bullets[b].killed
         /\ player_bullets[b].y > 1000

\* the script of the enemy or enemy bullet was invoked in the step
Ticked(log, kind, id) ==
    \E i \in DOMAIN log : log[i] = [kind |-> kind, id |-> id]

\* C9: an enemy bullet that is out of bounds at the start of its turn has
\* its deletion requested in that step, its script is not invoked and its
\* transform is not moved.
C9_ExpiredBulletNotTicked ==
    [][RunStep =>
         \A b \in DOMAIN enemy_bullets :
             Outside(enemy_bullets[b]) =>
                 /\ enemy_bullets'[b].killed
                 /\ ~Ticked(step'.ticked, "bullet", b)
                 /\ enemy_bullets'[b].x = enemy_bullets[b].x
                 /\ enemy_bullets'[b].y = enemy_bullets[b].y]_vars

\* a bullet that was out of bounds was deleted without a tick
C9_Witness ==
    /\ AfterStep
    /\ \E b \in DOMAIN enemy_bullets :
         /\ enemy_bullets[b].killed /\ Outside(enemy_bullets[b])
         /\ ~Ticked(step.ticked, "bullet", b)

\* C10 as claimed: an enemy bullet whose position is out of bounds after its
\* script's tick and its MoveUp commands is deleted in that step.
C10_Original ==
    AfterStep =>
        \A b \in DOMAIN enemy_bullets :
            (Ticked(step.ticked, "bullet", b) /\ Outside(enemy_bullets[b]))
                => enemy_bullets[b].killed

\* C10 amended: the bounds are tested once, on the position an enemy bullet
\* has at the start of its turn: its deletion is requested in a step exactly
\* when that position is out of bounds, and otherwise its script is ticked;
\* a bullet its MoveUp commands take out of bounds stays in that step and is
\* deleted at its turn in the next step.
C10_BoundsTestedBeforeTick ==
    [][RunStep =>
         \A b \in DOMAIN enemy_bullets :
             /\ enemy_bullets'[b].killed <=> Outside(enemy_bullets[b])
             /\ ~Outside(enemy_bullets[b]) =>
                    Ticked(step'.ticked, "bullet", b)]_vars

\* a bullet moved out of bounds and was not deleted in that step
C10_Witness ==
    /\ AfterStep
    /\ \E b \in DOMAIN enemy_bullets :
         /\ Ticked(step.ticked, "bullet", b) /\ Outside(enemy_bullets[b])
         /\ ~enemy_bullets[b].killed

\* the places <<i, j>> of the SummonBullet commands that the scripts of the
\* given kind of entity pushed in a step
Summons(log, kind) ==
    { p \in UNION { { <<i, j>> : j \in DOMAIN log[i].out } : i \in DOMAIN log } :
        /\ log[p[1]].who.kind = kind
        /\ log[p[1]].out[p[2]].cmd = "SummonBullet" }

\* C11: every SummonBullet command of an enemy's script spawns exactly one
\* enemy bullet, and the script manager's load is called exactly when the
\* named script is not cached: once for the first use of a name, never for
\* a later use; the cache only grows, by the names used.
C11_SummonLoadsOnce ==
    [][RunStep =>
         LET used == Summons(step'.emitted, "enemy")
             names == { step'.emitted[p[1]].out[p[2]].script : p \in used }
             loads == step'.loads
         IN  /\ Len(enemy_bullets') = Len(enemy_bullets) + Cardinality(used)
             /\ { loads[i] : i \in DOMAIN loads } = names \ script_manager
             /\ Len(loads) = Cardinality(names \ script_manager)
             /\ script_manager' = script_manager \cup names]_vars

\* a second use of the script "s1": a bullet was spawned and nothing loaded
C11_Witness ==
    /\ AfterStep
    /\ \E p \in Summons(step.emitted, "enemy") :
          step.emitted[p[1]].out[p[2]].script = "s1"
    /\ step.loads = <<>>
    /\ Len(enemy_bullets) = 2
    /\ \A b \in DOMAIN enemy_bullets : enemy_bullets[b].script = "s1"

\* the squared planar distance of two positions
Dist2(a, b) == (a.x - b.x) * (a.x - b.x) + (a.y - b.y) * (a.y - b.y)

\* C12: for a Circle with stored r_2 <= 0 on the A side, is_collide_with
\* equals the point test of shape B between the two centers: true iff their
\* squared planar distance is <= B's r_2, for every B and all centers.
C12_PointShapeDelegates ==
    (probe.op = "collide" /\ probe.self.r_2 <= 0) =>
        (probe.result <=>
             Dist2(probe.other, probe.me) <= probe.other_collide.r_2)

\* a point shape inside a circle of radius 3, on its boundary
C12_Witness ==
    /\ probe.op = "collide"
    /\ probe.self.r_2 = 0 /\ probe.other_collide.r_2 = 9
    /\ Dist2(probe.me, probe.other) = 9
    /\ probe.result

\* C13: a CollideType built from tag 10 with args [r] is Circle(r * r); its
\* point test is true iff the squared planar distance of center and point
\* is <= r * r, the boundary included; the test gives the same with center
\* and point swapped and whatever the z coordinates are.
C13_CircleFromTag ==
    /\ (probe.op = "try_from" /\ probe.value = 10) =>
           probe.result = [kind |-> "Circle",
                           r_2 |-> probe.args[1] * probe.args[1]]
    /\ probe.op = "point" =>
           /\ probe.result <=>
                  Dist2(probe.me, probe.other) <= probe.r * probe.r
           /\ probe.swapped = probe.result
           /\ probe.flat = probe.result

\* r = 3 and a point at squared distance 9, at another depth: colliding
C13_Witness ==
    /\ probe.op = "point" /\ probe.r = 3
    /\ Dist2(probe.me, probe.other) = 9
    /\ probe.me.z # probe.other.z
    /\ probe.result

\* C14: an enemy whose hp dropped to <= 0 and whose deletion was requested
\* in the player bullets pass of a step does not have its tick function
\* invoked, and summons no enemy bullet, in the enemies pass of that step.
C14_DeadEnemyNotTicked ==
    AfterStep =>
        \A e \in DOMAIN enemies :
            (enemies[e].hp <= 0 /\ enemies[e].killed) =>
                /\ ~Ticked(step.ticked, "enemy", e)
                /\ \A p \in Summons(step.emitted, "enemy") :
                       step.emitted[p[1]].who.id # e

\* the player bullet that has place b after a step, as it was when the
\* player bullets pass of that step began
BulletBefore(b) ==
    LET fired == step'.fired
    IN  IF fired = 0 \/ b < fired THEN player_bullets[b]
        ELSE IF b = fired THEN players'[core_player]
        ELSE player_bullets[b - 1]

\* the hp enemy e has when the turn of the bullet at place b begins
HpAt(e, b) ==
    enemies[e].hp
        - 10 * Cardinality({ i \in DOMAIN step'.hits :
                               step'.hits[i][1] < b /\ step'.hits[i][2] = e })

\* enemy e has hp and its shape holds the bullet at place b
Target(e, b) ==
    /\ HpAt(e, b) > 0
    /\ Dist2(enemies[e], BulletBefore(b)) <= enemies[e].collide.r_2

\* C15: in one step each player bullet either hits the first enemy in
\* store order that has hp > 0 and whose shape holds the bullet, taking its
\* damage from the hp of that enemy only, and is deleted where it is; or,
\* when there is no such enemy, hits nothing and moves 30 units up.  hp
\* drops by the damage of the hits on the enemy and by nothing else.
C15_HitOrMove ==
    [][RunStep =>
         /\ \A b \in DOMAIN player_bullets' :
               LET targets == { e \in DOMAIN enemies : Target(e, b) }
                   hits == { i \in DOMAIN step'.hits : step'.hits[i][1] = b }
               IN  IF targets # {}
                   THEN /\ Cardinality(hits) = 1
                        /\ \A i \in hits :
                              /\ step'.hits[i][2] \in targets
                              /\ \A e \in targets : step'.hits[i][2] <= e
                        /\ player_bullets'[b].killed
                        /\ player_bullets'[b].x = BulletBefore(b).x
                        /\ player_bullets'[b].y = BulletBefore(b).y
                   ELSE /\ hits = {}
                        /\ player_bullets'[b].x = BulletBefore(b).x
                        /\ player_bullets'[b].y = BulletBefore(b).y + 30
         /\ \A e \in DOMAIN enemies :
               enemies'[e].hp =
                   enemies[e].hp
                       - 10 * Cardinality({ i \in DOMAIN step'.hits :
                                              step'.hits[i][2] = e })]_vars

\* two bullets inside both enemies: the first killed enemy 1, the second
\* passed it over and hit enemy 2, and neither moved
C15_Witness ==
    /\ AfterStep
    /\ step.hits = << <<1, 1>>, <<2, 2>> >>
    /\ enemies[1].hp <= 0 /\ enemies[2].hp = 5
    /\ \A b \in {1, 2} :
          /\ player_bullets[b].killed
          /\ Dist2(enemies[1], player_bullets[b]) <= enemies[1].collide.r_2

\* the places of the enemy bullets a call of run summoned
Summoned == Len(enemy_bullets) + 1 .. Len(enemy_bullets')

\* C16: the passes of a step run in the order player, player bullets, enemy
\* bullets, enemies: a player bullet shot in a step takes its turn in that
\* step, every enemy bullet's script is ticked before any enemy's, and an
\* enemy bullet summoned in a step is in that step neither ticked nor moved
\* nor deleted nor tested against the player, so that the player dies in a
\* step only by an enemy bullet that existed when the step began.
C16_PassOrder ==
    [][RunStep =>
         /\ step'.fired # 0 =>
                LET shot == player_bullets'[step'.fired]
                IN  \/ shot.y = players'[core_player].y + 30
                    \/ \E i \in DOMAIN step'.hits :
                           step'.hits[i][1] = step'.fired
         /\ \A i, j \in DOMAIN step'.ticked :
                (step'.ticked[i].kind = "enemy"
                    /\ step'.ticked[j].kind = "bullet") => j < i
         /\ \A b \in Summoned :
                /\ ~enemy_bullets'[b].killed
                /\ ~Ticked(step'.ticked, "bullet", b)
                /\ \E p \in Summons(step'.emitted, "enemy") :
                       LET x == step'.emitted[p[1]].out[p[2]]
                       IN  /\ enemy_bullets'[b].x = x.x
                           /\ enemy_bullets'[b].y = x.y
                           /\ enemy_bullets'[b].angle = x.angle
         /\ PlayerDied =>
                \E b \in DOMAIN enemy_bullets :
                    \/ enemy_bullets[b].collide.r_2 > 0
                    \/ Dist2(enemy_bullets[b], players'[core_player])
                           <= players'[core_player].radius
                                  * players'[core_player].radius]_vars

\* a bullet with a positive radius was summoned and the player, whom it
\* kills when it is tested, is alive at the end of the step
C16_Witness ==
    /\ AfterStep /\ core_player # None
    /\ enemy_bullets # <<>>
    /\ LET b == Len(enemy_bullets)
       IN  /\ enemy_bullets[b].collide.r_2 > 0
           /\ ~enemy_bullets[b].killed
           /\ ~Ticked(step.ticked, "bullet", b)
           /\ Summons(step.emitted, "enemy") # {}

\* the sum of the amounts of the MoveUp commands of a script's output
RECURSIVE MoveSum(_)
MoveSum(out) ==
    IF out = <<>> THEN 0
    ELSE (IF Head(out).cmd = "MoveUp" THEN Head(out).v ELSE 0)
             + MoveSum(Tail(out))

\* what the script of the entity pushed in the step; nothing if not ticked
Pushed(log, kind, id) ==
    IF \E i \in DOMAIN log : log[i].who = [kind |-> kind, id |-> id]
    THEN LET i == CHOOSE i \in DOMAIN log :
                      log[i].who = [kind |-> kind, id |-> id]
         IN  log[i].out
    ELSE <<>>

\* C17: every script invocation of a step finds the command queue empty and
\* the queue is empty when the step ends; a command the draining pass does
\* not interpret has no effect and is not carried over: enemy bullets are
\* spawned by the SummonBullet commands of the enemies only, and an enemy
\* bullet moves by the MoveUp commands of its own script only.
C17_QueueDrained ==
    [][RunStep =>
         /\ \A i \in DOMAIN step'.emitted : step'.emitted[i].queued = 0
         /\ step'.left = 0
         /\ Cardinality(Summoned) =
                Cardinality(Summons(step'.emitted, "enemy"))
         /\ \A b \in DOMAIN enemy_bullets :
                LET moved == MoveSum(Pushed(step'.emitted, "bullet", b))
                    old == enemy_bullets[b]
                    new == enemy_bullets'[b]
                IN  /\ old.angle = 0 =>
                           (new.x = old.x /\ new.y = old.y + moved)
                    /\ old.angle = 90 =>
                           (new.x = old.x - moved /\ new.y = old.y)
                    /\ new.angle = old.angle]_vars

\* an enemy bullet's script pushed a SummonBullet and an enemy's script a
\* MoveUp in one step, and the step spawned the enemy's one bullet
C17_Witness ==
    /\ AfterStep
    /\ Summons(step.emitted, "bullet") # {}
    /\ MoveSum(Pushed(step.emitted, "enemy", 1)) # 0
    /\ Cardinality(Summons(step.emitted, "enemy")) = 1
    /\ Len(enemy_bullets) = 2
    /\ step.left = 0

\* C18: no step changes an enemy's transform, whatever its script pushes:
\* every enemy stays where it was created, with its shape and script; the
\* only field of an enemy a step changes is hp, and only by a hit of the
\* player bullets pass.
C18_EnemiesStay ==
    /\ [](\A e \in DOMAIN enemies :
             enemies[e].x = 10 /\ enemies[e].y = 490 + 10 * e
                 /\ enemies[e].angle = 0)
    /\ [][\A e \in DOMAIN enemies \cap DOMAIN enemies' :
             /\ enemies'[e].x = enemies[e].x
             /\ enemies'[e].y = enemies[e].y
             /\ enemies'[e].angle = enemies[e].angle
             /\ enemies'[e].collide = enemies[e].collide
             /\ enemies'[e].script = enemies[e].script
             /\ enemies'[e].hp # enemies[e].hp =>
                    /\ RunStep
                    /\ \E i \in DOMAIN step'.hits : step'.hits[i][2] = e]_vars

\* the scripts of both enemies pushed MoveUp(20) in two steps and the
\* enemies are where they were created
C18_Witness ==
    /\ AfterStep /\ tick = 2
    /\ DOMAIN enemies = {1, 2}
    /\ \A e \in {1, 2} :
          /\ MoveSum(Pushed(step.emitted, "enemy", e)) = 20
          /\ enemies[e].x = 10 /\ enemies[e].y = 490 + 10 * e

\* an animation entity at an offset from a position, with its lifetime and
\* delay in hundredths of a second and its growth in units per second
Effect(pos, dx, dy, last, spread, delay, circle) ==
    [x |-> pos.x + dx, y |-> pos.y + dy, last_seconds |-> last,
     spread_per_second |-> spread, delay_second |-> delay, circle |-> circle]

\* C19: one call of boss_die_anime at a position builds exactly six
\* animation entities and leaves the others alone: one at the position
\* (5.0 s, 300, no delay), four at the offsets (-50,+50), (+50,+50),
\* (+50,-50), (-50,-50) (4.75 s, 375, 0.25 s each) and one at the position
\* (4.0 s, 500, 1.0 s); the four offsets are the four sign combinations,
\* each once.
C19_SixAnimations ==
    probe.op = "boss_die_anime" =>
        LET n == Len(probe.before)
            built == SubSeq(probe.result, n + 1, Len(probe.result))
            pos == probe.pos
        IN  /\ SubSeq(probe.result, 1, n) = probe.before
            /\ built = << Effect(pos, 0, 0, 500, 300, 0, TRUE),
                          Effect(pos, -50, 50, 475, 375, 25, FALSE),
                          Effect(pos, 50, 50, 475, 375, 25, FALSE),
                          Effect(pos, 50, -50, 475, 375, 25, FALSE),
                          Effect(pos, -50, -50, 475, 375, 25, FALSE),
                          Effect(pos, 0, 0, 400, 500, 100, FALSE) >>
            /\ \A sx \in {-50, 50}, sy \in {-50, 50} :
                   Cardinality({ k \in 2 .. 5 :
                                   /\ built[k].x - pos.x = sx
                                   /\ built[k].y - pos.y = sy }) = 1

\* a death at (3, -3) in a world that already has an animation entity
C19_Witness ==
    /\ probe.op = "boss_die_anime"
    /\ probe.pos.x = 3 /\ probe.pos.y = -3
    /\ Len(probe.before) = 1 /\ Len(probe.result) = 7
    /\ probe.result[6].x = -47 /\ probe.result[6].y = -53

\* C20: for a Circle with stored r_2 > 0 on the A side is_collide_with is
\* true for all centers and every other shape; the death check has the
\* enemy bullet's shape on the A side, so a step that starts with a player
\* and an enemy bullet of positive radius kills the player, whatever their
\* distance.
C20_PositiveRadiusKills ==
    /\ [](\A a \in {1, 16}, b \in {-1, 0, 25} :
            \A me \in {Vec(0, 0), Vec(800, 450)},
               other \in {Vec(0, 0), Vec(1600, 900)} :
                is_collide_with([kind |-> "Circle", r_2 |-> a], me,
                                [kind |-> "Circle", r_2 |-> b], other))
    /\ [][(/\ RunStep
           /\ core_player # None
           /\ \E b \in DOMAIN enemy_bullets :
                  enemy_bullets[b].collide.r_2 > 0) =>
              /\ core_player' = None
              /\ players'[core_player].killed]_vars

\* the player died at (1600, 900) with the only enemy bullet at (800, 450),
\* radius 4
C20_Witness ==
    /\ AfterStep /\ core_player = None
    /\ PlayerEntity \in DOMAIN players /\ players[PlayerEntity].killed
    /\ Len(enemy_bullets) = 1
    /\ enemy_bullets[1].collide.r_2 = 16
    /\ Dist2(enemy_bullets[1], players[PlayerEntity]) > 1000

====
